---- MODULE Spec2Model ----
(***************************************************************************)
(* Model of the dumi theme plugin of x-note (.dumi/theme/plugin.ts):       *)
(*   - the SSR style export step (extractEmotionStyle, writeCSSFile,       *)
(*     addLinkStyle, api.modifyExportHTMLFiles);                           *)
(*   - the demo markdown block parser inside                               *)
(*     AntdReactTechStack.generatePreviewerProps.                          *)
(*                                                                         *)
(* Text that the code inspects character by character (rule ids, page      *)
(* paths, markdown) is a sequence of characters, each a string.  Text the  *)
(* code only concatenates (css, file names, link elements) is a string.    *)
(* A page's HTML is a sequence of tokens (strings): the head markers, the  *)
(* class names that occur in it, the injected link elements.               *)
(***************************************************************************)
EXTENDS Integers, Sequences, FiniteSets, TLC

VARIABLES
  outputDir,    \* api.paths.absOutputPath: file name -> file content
  styleCaches,  \* global.__ANTD_STYLE_CACHE_MANAGER_FOR_SSR__.getCacheList()
  files,        \* the array handed to the modifyExportHTMLFiles callback
  out,          \* the array produced by .filter(), mapped in place
  fileIdx,      \* position of .map() in out
  styles,       \* extractEmotionStyle(file.content) of the current file
  styleIdx,     \* position of styles.forEach()
  cssFile,      \* value returned by the last writeCSSFile call
  pc,           \* position of the export callback
  writeCount,   \* history: file name -> number of fs.writeFileSync calls
  published,    \* history: the fragments handed to writeCSSFile so far
  lastCall,     \* history: what the last writeCSSFile call did
  failed,       \* history: the name whose fs.writeFileSync threw in this export
  md,           \* text of the demo's companion markdown file
  lines,        \* md.split('\n')
  i,            \* loop index of the line scan
  blockName,    \* name of the block in progress
  cacheList,    \* lines of the block in progress
  blocks,       \* block name -> text
  ppc,          \* position of generatePreviewerProps
  demo,         \* what the call is given: opts, the files on disk, props
  locale,       \* locale of the document that embeds the demo
  props,        \* the props object the call fills and returns
  path,         \* getLocalizedPathname: argument path
  zhCN,         \* getLocalizedPathname: argument zhCN
  localized,    \* getLocalizedPathname(path, zhCN)
  relocalized,  \* getLocalizedPathname(localized, zhCN)
  switched,     \* getLocalizedPathname(localized, !zhCN)
  lpc,          \* position of the two calls
  routesIn,     \* history: the route table handed to the modifyRoutes callback
  routes,       \* the route table: key -> route
  rpc,          \* position of the modifyRoutes callback
  resolvable,   \* the files require.resolve finds
  racePc,       \* build -> position inside its writeCSSFile call
  raceJob,      \* build -> the fragment it publishes
  raceOverlap,  \* history: names tested absent by a build while another build
                \* stood between its own test and its write of that name
  linkArgs,     \* addLinkStyle: the arguments html, cssFile, prepend
  linkOut,      \* addLinkStyle: the value returned
  kpc,          \* position of the addLinkStyle call
  page,         \* head script: location.pathname of the page being loaded
  query,        \* head script: location.search
  stored,       \* head script: localStorage.getItem('locale')
  browserLang,  \* head script: navigator.language
  storageOK,    \* head script: whether localStorage can be written
  htmlClass,    \* head script: class put on the html element
  trail,        \* history: the pathnames loaded so far, the first visit included
  hpc           \* position of the head script

exportVars == <<outputDir, styleCaches, files, out, fileIdx, styles, styleIdx,
                cssFile, pc, writeCount, published, lastCall, failed>>
parserVars == <<md, lines, i, blockName, cacheList, blocks, ppc, demo, locale,
               props>>
localeVars == <<path, zhCN, localized, relocalized, switched, lpc>>
routeVars  == <<routesIn, routes, rpc, resolvable>>
raceVars   == <<racePc, raceJob, raceOverlap>>
linkVars   == <<linkArgs, linkOut, kpc>>
headVars   == <<page, query, stored, browserLang, storageOK, htmlClass, trail, hpc>>
vars == <<exportVars, parserVars, localeVars, routeVars, raceVars, linkVars,
          headVars>>

-----------------------------------------------------------------------------
(* Bounds *)

MaxFiles == 3      \* pages handed to one export
MaxLines == 3      \* lines of a generated markdown document
MaxBuilds == 2     \* builds that publish into one output directory at a time

-----------------------------------------------------------------------------
(* Text helpers *)

RECURSIVE Str(_)
\* the string spelled by a sequence of characters
Str(s) == IF s = <<>> THEN "" ELSE Head(s) \o Str(Tail(s))

RECURSIVE Flatten(_)
\* Array.prototype.join('') on an array of character sequences
Flatten(ss) == IF ss = <<>> THEN <<>> ELSE Head(ss) \o Flatten(Tail(ss))

Includes(s, c) == \E k \in 1..Len(s) : s[k] = c

SeqsUpTo(S, n) == UNION {[1..k -> S] : k \in 0..n}

-----------------------------------------------------------------------------
(* getHash: createHash('md5').update(str).digest('hex').slice(0, length) *)

HexDigits == <<"0", "1", "2", "3", "4", "5", "6", "7",
               "8", "9", "a", "b", "c", "d", "e", "f">>

\* the characters rule ids are spelled with
IdChars == <<"a", "b", "c">>

CharCode(c) == CHOOSE k \in 1..Len(IdChars) : IdChars[k] = c

RECURSIVE DigestNumber(_, _)
\* Stand-in for the MD5 compression: a positional code of the string, which is
\* deterministic and collision-free on the strings of this model (MD5 is taken
\* as collision-free; its bit pattern is not modelled).
DigestNumber(str, acc) ==
  IF str = <<>> THEN acc
  ELSE DigestNumber(Tail(str), (acc * 17 + CharCode(Head(str))) % 16777216)

RECURSIVE HexOf(_, _)
\* n written with exactly k hexadecimal digits
HexOf(n, k) ==
  IF k = 0 THEN <<>> ELSE HexOf(n \div 16, k - 1) \o <<HexDigits[(n % 16) + 1]>>

\* digest('hex') of MD5: 32 hexadecimal digits
Md5Hex(str) == HexOf(DigestNumber(str, 0), 8) \o [k \in 1..24 |-> "0"]

getHash(str, length) == Str(SubSeq(Md5Hex(str), 1, length))

-----------------------------------------------------------------------------
(* The export step *)

PublicPath == "/"   \* api.userConfig.publicPath || api.config.publicPath

HeadOpen  == "<head>"
HeadClose == "</head>"

\* variant of FileName that leaves the cache key out of the name
FileNameWithoutKey(key, hashKey) == "style-" \o getHash(hashKey, 8) \o ".css"

\* "style-" + key + "." + getHash(hashKey) + ".css"
FileName(key, hashKey) == "style-" \o key \o "." \o getHash(hashKey, 8) \o ".css"

\* variant of writeCSSFile that returns the name without writing the file
writeCSSFileNameOnly(dir, key, hashKey, cssString) ==
  [dir |-> dir, fileName |-> FileName(key, hashKey), wrote |-> FALSE]

\* variant of writeCSSFile without the fs.existsSync test
writeCSSFileUnchecked(dir, key, hashKey, cssString) ==
  LET fileName == FileName(key, hashKey)
  IN  [dir      |-> [f \in DOMAIN dir \cup {fileName} |->
                       IF f = fileName THEN cssString ELSE dir[f]],
       fileName |-> fileName,
       wrote    |-> TRUE]

\* writeCSSFile: the directory afterwards, the returned name, whether
\* fs.writeFileSync was called
writeCSSFile(dir, key, hashKey, cssString) ==
  LET fileName == FileName(key, hashKey)
      exists   == fileName \in DOMAIN dir
  IN  [dir      |-> IF exists THEN dir
                    ELSE [f \in DOMAIN dir \cup {fileName} |->
                            IF f = fileName THEN cssString ELSE dir[f]],
       fileName |-> fileName,
       wrote    |-> ~exists]

LinkTag(cssFileName) ==
  "<link rel=\"stylesheet\" href=\"" \o PublicPath \o cssFileName \o "\">"

\* index of the first occurrence of token in html, 0 when there is none
IndexOf(html, token) ==
  IF \E k \in 1..Len(html) : html[k] = token
  THEN CHOOSE k \in 1..Len(html) :
         html[k] = token /\ \A j \in 1..(k - 1) : html[j] # token
  ELSE 0

\* String.prototype.replace(marker, replacement): first occurrence only
ReplaceFirst(html, marker, replacement) ==
  LET k == IndexOf(html, marker)
  IN  IF k = 0 THEN html
      ELSE SubSeq(html, 1, k - 1) \o replacement \o SubSeq(html, k + 1, Len(html))

RECURSIVE ReplaceEvery(_, _, _)
\* every occurrence of marker replaced
ReplaceEvery(html, marker, replacement) ==
  IF html = <<>> THEN <<>>
  ELSE (IF Head(html) = marker THEN replacement ELSE <<Head(html)>>)
         \o ReplaceEvery(Tail(html), marker, replacement)

\* variant of addLinkStyle that rewrites every occurrence of the marker
addLinkStyleEvery(html, cssFileName, prepend) ==
  IF prepend
  THEN ReplaceEvery(html, HeadOpen, <<HeadOpen, LinkTag(cssFileName)>>)
  ELSE ReplaceEvery(html, HeadClose, <<LinkTag(cssFileName), HeadClose>>)

\* variant of addLinkStyle that puts the link in the place of the marker
addLinkStyleOverMarker(html, cssFileName, prepend) ==
  IF prepend
  THEN ReplaceFirst(html, HeadOpen, <<LinkTag(cssFileName)>>)
  ELSE ReplaceFirst(html, HeadClose, <<LinkTag(cssFileName)>>)

\* variant of addLinkStyle that always takes the prepend branch
addLinkStylePrepended(html, cssFileName, prepend) ==
  ReplaceFirst(html, HeadOpen, <<HeadOpen, LinkTag(cssFileName)>>)

addLinkStyle(html, cssFileName, prepend) ==
  IF prepend
  THEN ReplaceFirst(html, HeadOpen, <<HeadOpen, LinkTag(cssFileName)>>)
  ELSE ReplaceFirst(html, HeadClose, <<LinkTag(cssFileName), HeadClose>>)

\* class name an emotion cache gives to rule id: cache.key + "-" + id
ClassName(key, id) == key \o "-" \o Str(id)

RECURSIVE CriticalOf(_, _, _)
\* createEmotionServer(cache).extractCritical(html): the inserted rules, in
\* insertion order, whose class name occurs in html
CriticalOf(key, inserted, html) ==
  IF inserted = <<>> THEN [css |-> "", ids |-> <<>>]
  ELSE LET r    == Head(inserted)
           rest == CriticalOf(key, Tail(inserted), html)
       IN  IF Includes(html, ClassName(key, r.id))
           THEN [css |-> r.css \o rest.css, ids |-> <<r.id>> \o rest.ids]
           ELSE rest

\* variant of the filter that keeps the result of every cache
KeepsEmpty(x) == TRUE

\* styles.filter(Boolean) after the map that returns null when !result.css
NonNull(x) == x.css # ""

extractEmotionStyle(html) ==
  LET results == [k \in 1..Len(styleCaches) |->
                    LET c == styleCaches[k]
                        r == CriticalOf(c.key, c.inserted, html)
                    IN  [key |-> c.key, css |-> r.css, ids |-> r.ids]]
  IN  SelectSeq(results, NonNull)

\* variant of writeThrows in which a try/catch around fs.writeFileSync lets
\* writeCSSFile return the name
writeThrowsCaught(call) ==
  [call EXCEPT !.cssFile = call.fileName,
               !.content = addLinkStyle(call.content, call.fileName, FALSE),
               !.styleIdx = call.styleIdx + 1]

\* the export callback after fs.writeFileSync threw inside writeCSSFile: no
\* try/catch on the way out, so nothing is returned or assigned
writeThrows(call) == [call EXCEPT !.pc = "threw"]

\* variant of the filter predicate that keeps every page
KeepsAll(f) == TRUE

\* (f) => !f.path.includes(':')
IsStatic(f) == ~Includes(f.path, ":")

\* ids.join('')
HashKey(ids) == Flatten(ids)


-----------------------------------------------------------------------------
(* Inputs of the export step *)

IdA  == <<"a">>
IdB  == <<"b">>
IdAB == <<"a", "b">>

\* States of the style cache list at the time of an export.  A rule id is
\* emotion's hash of the style source; the css text is what the cache compiled
\* for it.
StyleCacheStates ==
  { << [key |-> "antd",
        inserted |-> << [id |-> IdA,  css |-> ".antd-a{}"],
                        [id |-> IdB,  css |-> ".antd-b{}"],
                        [id |-> IdAB, css |-> ".antd-ab{}"] >>],
       [key |-> "css",
        inserted |-> << [id |-> IdA,  css |-> ".css-a{}"] >>] >>,
    << [key |-> "antd",
        inserted |-> << [id |-> IdB,  css |-> ".antd-b{}"],
                        [id |-> IdA,  css |-> ".antd-a{color:red}"] >>],
       [key |-> "css",
        inserted |-> << >>] >> }

\* Pages the rendering layer exports
Pages ==
  { [path |-> <<"/", "a">>,
     content |-> <<HeadOpen, HeadClose, "antd-a", "antd-b">>],
    [path |-> <<"/", "b">>,
     content |-> <<HeadOpen, HeadClose, "antd-ab", "css-a">>],
    [path |-> <<"/", "c">>,
     content |-> <<HeadOpen, "<title>", HeadClose, "antd-a", HeadClose>>],
    [path |-> <<"/", ":", "i", "d">>,
     content |-> <<HeadOpen, HeadClose, "antd-a">>] }

NoFile == [f \in {} |-> ""]

\* a property that is not set
Undefined == [defined |-> FALSE, text |-> <<>>]

Defined(text) == [defined |-> TRUE, text |-> text]

NoProps == [description |-> Undefined, style |-> Undefined, jsx |-> Undefined]

NoDemo == [opts  |-> [type |-> "", mdAbsPath |-> <<>>, fileAbsPath |-> <<>>,
                      entryPointCode |-> <<>>],
           disk  |-> [f \in {} |-> <<>>],
           props |-> NoProps]

NoCall == [called |-> FALSE, wrote |-> FALSE, repeated |-> FALSE,
           key |-> "", ids |-> <<>>, css |-> ""]

-----------------------------------------------------------------------------
(* State after the plugin is set up: nothing exported, nothing parsed *)

ExportIdle ==
  /\ styleCaches = <<>>
  /\ files = <<>>
  /\ out = <<>>
  /\ fileIdx = 0
  /\ styles = <<>>
  /\ styleIdx = 0
  /\ cssFile = ""
  /\ lastCall = NoCall
  /\ failed = ""
  /\ pc = "idle"

ExportInit ==
  /\ outputDir = NoFile
  /\ writeCount = [f \in {} |-> 0]
  /\ published = {}
  /\ ExportIdle

ParserOff ==
  /\ md = <<>>
  /\ lines = <<>>
  /\ i = 0
  /\ blockName = <<>>
  /\ cacheList = <<>>
  /\ blocks = [n \in {} |-> <<>>]
  /\ ppc = "off"
  /\ demo = NoDemo
  /\ locale = <<>>
  /\ props = NoProps

LocaleOff ==
  /\ path = <<>>
  /\ zhCN = FALSE
  /\ localized = <<>>
  /\ relocalized = <<>>
  /\ switched = <<>>
  /\ lpc = "off"

RoutesOff ==
  /\ routesIn = [k \in {} |-> ""]
  /\ routes = [k \in {} |-> ""]
  /\ rpc = "off"
  /\ resolvable = {}

RaceOff ==
  /\ racePc = <<>>
  /\ raceJob = <<>>
  /\ raceOverlap = {}

LinkOff ==
  /\ linkArgs = [html |-> <<>>, cssFile |-> "", prepend |-> FALSE]
  /\ linkOut = <<>>
  /\ kpc = "off"

HeadOff ==
  /\ page = <<>>
  /\ query = <<>>
  /\ stored = ""
  /\ browserLang = ""
  /\ storageOK = FALSE
  /\ htmlClass = ""
  /\ trail = <<>>
  /\ hpc = "off"

Init ==
  ExportInit /\ ParserOff /\ LocaleOff /\ RoutesOff /\ RaceOff /\ LinkOff /\ HeadOff

-----------------------------------------------------------------------------
(* api.modifyExportHTMLFiles((files) => files.filter(...).map(...)) *)

\* the callback is entered: .filter() drops the dynamic routes
StartExport ==
  /\ pc = "idle"
  /\ \E fs \in SeqsUpTo(Pages, MaxFiles), caches \in StyleCacheStates :
       /\ files' = fs
       /\ styleCaches' = caches
       /\ out' = SelectSeq(fs, IsStatic)
  /\ fileIdx' = 1
  /\ pc' = "map"
  /\ UNCHANGED <<outputDir, styles, styleIdx, cssFile, writeCount, published,
                 lastCall, failed>>

\* .map(): const styles = extractEmotionStyle(file.content)
ExtractStyles ==
  /\ pc = "map"
  /\ fileIdx <= Len(out)
  /\ styles' = extractEmotionStyle(out[fileIdx].content)
  /\ styleIdx' = 1
  /\ pc' = "forEach"
  /\ UNCHANGED <<outputDir, styleCaches, files, out, fileIdx, cssFile,
                 writeCount, published, lastCall, failed>>

\* styles.forEach(): writeCSSFile, then addLinkStyle on the file's content
PublishStyle ==
  /\ pc = "forEach"
  /\ styleIdx <= Len(styles)
  /\ LET result == styles[styleIdx]
         w      == writeCSSFile(outputDir, result.key, HashKey(result.ids), result.css)
     IN  /\ outputDir' = w.dir
         /\ cssFile' = w.fileName
         /\ writeCount' =
              IF w.wrote
              THEN [f \in DOMAIN writeCount \cup {w.fileName} |->
                      IF f = w.fileName
                      THEN (IF f \in DOMAIN writeCount THEN writeCount[f] ELSE 0) + 1
                      ELSE writeCount[f]]
              ELSE writeCount
         /\ LET call == [fileName |-> w.fileName, key |-> result.key,
                          ids |-> result.ids, css |-> result.css]
            IN  /\ published' = published \cup {call}
                /\ lastCall' = [called |-> TRUE, wrote |-> w.wrote,
                                repeated |-> call \in published,
                                key |-> result.key, ids |-> result.ids,
                                css |-> result.css]
         /\ out' = [out EXCEPT ![fileIdx].content =
                      addLinkStyle(out[fileIdx].content, w.fileName, FALSE)]
  /\ styleIdx' = styleIdx + 1
  /\ UNCHANGED <<styleCaches, files, fileIdx, styles, pc, failed>>

\* fs.writeFileSync throws (line 418 is reached only when the file is absent;
\* the failed call creates no file): nothing in writeCSSFile, forEach, map or
\* the callback catches, so the export is left at this point
PublishStyleThrows ==
  /\ pc = "forEach"
  /\ styleIdx <= Len(styles)
  /\ LET result   == styles[styleIdx]
         fileName == FileName(result.key, HashKey(result.ids))
         after    == writeThrows([pc |-> pc, cssFile |-> cssFile,
                                  content |-> out[fileIdx].content,
                                  styleIdx |-> styleIdx, fileName |-> fileName])
     IN  /\ fileName \notin DOMAIN outputDir
         /\ failed' = fileName
         /\ pc' = after.pc
         /\ cssFile' = after.cssFile
         /\ styleIdx' = after.styleIdx
         /\ out' = [out EXCEPT ![fileIdx].content = after.content]
  /\ UNCHANGED <<outputDir, styleCaches, files, fileIdx, styles, writeCount,
                 published, lastCall>>

\* forEach is over: return file, .map() moves on
NextFile ==
  /\ pc = "forEach"
  /\ styleIdx > Len(styles)
  /\ fileIdx' = fileIdx + 1
  /\ styles' = <<>>
  /\ styleIdx' = 0
  /\ pc' = "map"
  /\ UNCHANGED <<outputDir, styleCaches, files, out, cssFile, writeCount,
                 published, lastCall, failed>>

\* .map() is over: the callback returns out
ReturnFiles ==
  /\ pc = "map"
  /\ fileIdx > Len(out)
  /\ pc' = "done"
  /\ UNCHANGED <<outputDir, styleCaches, files, out, fileIdx, styles, styleIdx,
                 cssFile, writeCount, published, lastCall, failed>>

\* the build ends, after the export returned or threw; the output directory
\* stays for the next build
EndBuild ==
  /\ pc \in {"done", "threw"}
  /\ styleCaches' = <<>>
  /\ files' = <<>>
  /\ out' = <<>>
  /\ fileIdx' = 0
  /\ styles' = <<>>
  /\ styleIdx' = 0
  /\ cssFile' = ""
  /\ lastCall' = NoCall
  /\ failed' = ""
  /\ pc' = "idle"
  /\ UNCHANGED <<outputDir, writeCount, published>>

Next ==
  \/ StartExport /\ UNCHANGED <<parserVars, localeVars, routeVars, raceVars, linkVars, headVars>>
  \/ ExtractStyles /\ UNCHANGED <<parserVars, localeVars, routeVars, raceVars, linkVars, headVars>>
  \/ PublishStyle /\ UNCHANGED <<parserVars, localeVars, routeVars, raceVars, linkVars, headVars>>
  \/ PublishStyleThrows /\ UNCHANGED <<parserVars, localeVars, routeVars, raceVars, linkVars, headVars>>
  \/ NextFile /\ UNCHANGED <<parserVars, localeVars, routeVars, raceVars, linkVars, headVars>>
  \/ ReturnFiles /\ UNCHANGED <<parserVars, localeVars, routeVars, raceVars, linkVars, headVars>>
  \/ EndBuild /\ UNCHANGED <<parserVars, localeVars, routeVars, raceVars, linkVars, headVars>>

Spec == Init /\ [][Next]_vars


-----------------------------------------------------------------------------
(* Claims about the export step, checked under Spec *)

\* C1: under sequential use of one output directory, repeated builds included,
\* every derived file name has been written at most once, every name a
\* fragment was mapped to has been written exactly once, and a call that
\* repeats an earlier (cacheKey, ruleIds, css) does not write.
C1_WrittenAtMostOnce ==
  /\ \A f \in DOMAIN writeCount : writeCount[f] <= 1
  /\ \A p \in published :
       p.fileName \in DOMAIN writeCount /\ writeCount[p.fileName] = 1
  /\ lastCall.repeated => ~lastCall.wrote

\* C1 witness: a call with the same (cacheKey, ruleIds, css) as an earlier one
\* has just returned.
C1_Witness ==
  /\ lastCall.called
  /\ lastCall.repeated
  /\ writeCount[cssFile] = 1

\* C2 (as claimed): fragments mapped to the same file name carry the same css,
\* and the content stored under a name is the css of every fragment mapped to it.
C2_SameNameSameContent ==
  /\ \A p, q \in published : p.fileName = q.fileName => p.css = q.css
  /\ \A p \in published :
       p.fileName \in DOMAIN outputDir /\ outputDir[p.fileName] = p.css

C4_DistinctIdsDistinctNames ==
  \A p, q \in published :
    (p.key = q.key /\ p.ids # q.ids) => p.fileName # q.fileName

\* C5: a publish step that finds its derived name in the output directory
\* writes nothing, leaves the directory unchanged and returns the name.
C5_ExistingFileKept ==
  [][ (/\ pc = "forEach"
       /\ styleIdx <= Len(styles)
       /\ FileName(styles[styleIdx].key, Flatten(styles[styleIdx].ids))
            \in DOMAIN outputDir)
      => (/\ outputDir' = outputDir
          /\ writeCount' = writeCount
          /\ cssFile' = FileName(styles[styleIdx].key, Flatten(styles[styleIdx].ids))) ]_vars

\* C5 witness: the last call found a file whose content differs from the css
\* it was given, and that file is still as it was.
C5_Witness ==
  /\ lastCall.called
  /\ ~lastCall.wrote
  /\ outputDir[cssFile] # lastCall.css

Parametric(ps) == {k \in 1..Len(ps) : \E j \in 1..Len(ps[k].path) : ps[k].path[j] = ":"}

\* C6: the pages the callback works on and returns hold no path with ':',
\* are as many as the input pages that are not parametric, and are those
\* pages in their input order.
C6_NoParametricPage ==
  pc \in {"map", "forEach", "done"} =>
    /\ \A k \in 1..Len(out) : \A j \in 1..Len(out[k].path) : out[k].path[j] # ":"
    /\ Len(out) = Len(files) - Cardinality(Parametric(files))
    /\ \E g \in [1..Len(out) -> 1..Len(files)] :
         /\ \A k \in 1..Len(out) : out[k].path = files[g[k]].path
         /\ \A k \in 1..Len(out) : g[k] \notin Parametric(files)
         /\ \A k, l \in 1..Len(out) : k < l => g[k] < g[l]

\* C6 witness: an export has returned two pages after dropping a parametric
\* page that stood between them.
C6_Witness ==
  /\ pc = "done"
  /\ Len(files) = 3
  /\ Parametric(files) = {2}
  /\ Len(out) = 2
  /\ out[1].path # out[2].path

\* the static input pages, as they were handed in
Rendered == [k \in 1..(Len(files) - Cardinality(Parametric(files))) |->
               files[CHOOSE n \in 1..Len(files) :
                       /\ n \notin Parametric(files)
                       /\ Cardinality((1..n) \ Parametric(files)) = k]]

\* number of fragments of page k that were published so far
Handled(k) ==
  IF pc = "done" \/ k < fileIdx THEN Len(extractEmotionStyle(Rendered[k].content))
  ELSE IF k = fileIdx /\ pc = "forEach" THEN styleIdx - 1
  ELSE 0

\* C7: a page's content is its rendered content with, immediately before the
\* first closing head marker, one link element per published fragment
\* (href = public path + file name), in extraction order.
C7_LinksBeforeHeadClose ==
  pc \in {"map", "forEach", "done"} =>
    \A k \in 1..Len(out) :
      LET html  == Rendered[k].content
          frags == extractEmotionStyle(html)
          at    == CHOOSE n \in 1..Len(html) :
                     html[n] = HeadClose /\ \A j \in 1..(n - 1) : html[j] # HeadClose
          links == [n \in 1..Handled(k) |->
                      "<link rel=\"stylesheet\" href=\"" \o PublicPath \o "style-"
                        \o frags[n].key \o "."
                        \o getHash(Flatten(frags[n].ids), 8) \o ".css" \o "\">"]
      IN  out[k].content =
            SubSeq(html, 1, at - 1) \o links \o SubSeq(html, at, Len(html))

\* C7 witness: a returned page carries the links of two fragments.
C7_Witness ==
  /\ pc = "done"
  /\ \E k \in 1..Len(out) :
       /\ Len(extractEmotionStyle(Rendered[k].content)) = 2
       /\ Len(out[k].content) = Len(Rendered[k].content) + 2


-----------------------------------------------------------------------------
(* The demo markdown parser of AntdReactTechStack.generatePreviewerProps *)

Newline == "\n"

\* A character the lexer of TLA+ takes in no string is named by its code point.
Backtick == "U+0060"

\* what the regular expression class \s and String.prototype.trim take as
\* white space, among the characters of this model
WhiteSpace == {" ", "\t", "\r", "\n"}

StartsWith(text, prefix) ==
  /\ Len(text) >= Len(prefix)
  /\ SubSeq(text, 1, Len(prefix)) = prefix

\* text has word at position k
HasAt(text, k, word) ==
  /\ k + Len(word) - 1 <= Len(text)
  /\ SubSeq(text, k, k + Len(word) - 1) = word

RECURSIVE SplitLines(_, _)
\* String.prototype.split('\n'); cur is the line being collected
SplitLines(text, cur) ==
  IF text = <<>> THEN <<cur>>
  ELSE IF Head(text) = Newline THEN <<cur>> \o SplitLines(Tail(text), <<>>)
  ELSE SplitLines(Tail(text), Append(cur, Head(text)))

RECURSIVE JoinLines(_)
\* Array.prototype.join('\n')
JoinLines(ls) ==
  IF ls = <<>> THEN <<>>
  ELSE IF Len(ls) = 1 THEN ls[1]
  ELSE ls[1] \o <<Newline>> \o JoinLines(Tail(ls))

RECURSIVE TrimStart(_)
TrimStart(s) ==
  IF s # <<>> /\ Head(s) \in WhiteSpace THEN TrimStart(Tail(s)) ELSE s

RECURSIVE TrimEnd(_)
TrimEnd(s) ==
  IF s # <<>> /\ s[Len(s)] \in WhiteSpace THEN TrimEnd(SubSeq(s, 1, Len(s) - 1)) ELSE s

\* String.prototype.trim
Trim(s) == TrimEnd(TrimStart(s))

HeadingMarker == <<"#", "#", " ">>
CssFence      == <<Backtick, Backtick, Backtick, "c", "s", "s">>
Fence         == <<Backtick, Backtick, Backtick>>
Css           == <<"c", "s", "s">>
StyleOpen     == <<"<", "s", "t", "y", "l", "e", ">">>
StyleClose    == <<"<", "/", "s", "t", "y", "l", "e", ">">>
StyleName     == <<"s", "t", "y", "l", "e">>

\* variant of getBlockName that does not trim the heading's name
getBlockNameUntrimmed(text) ==
  IF StartsWith(text, HeadingMarker)
  THEN [isNull |-> FALSE, name |-> SubSeq(text, Len(HeadingMarker) + 1, Len(text))]
  ELSE IF StartsWith(text, CssFence) \/ StartsWith(text, StyleOpen)
  THEN [isNull |-> FALSE, name |-> StyleName]
  ELSE [isNull |-> TRUE, name |-> <<>>]

\* getBlockName: isNull tells the null result from a name
getBlockName(text) ==
  IF StartsWith(text, HeadingMarker)
  THEN [isNull |-> FALSE, name |-> Trim(SubSeq(text, Len(HeadingMarker) + 1, Len(text)))]
  ELSE IF StartsWith(text, CssFence) \/ StartsWith(text, StyleOpen)
  THEN [isNull |-> FALSE, name |-> StyleName]
  ELSE [isNull |-> TRUE, name |-> <<>>]

\* variant of Truthy that tests for null only
TruthyNotNull(r) == ~r.isNull

\* if (nextBlockName): null and the empty string are falsy
Truthy(r) == ~r.isNull /\ r.name # <<>>

\* length of the match of /<\/?style>/ at position k, 0 when there is none
StyleTagAt(text, k) ==
  IF HasAt(text, k, StyleOpen) THEN Len(StyleOpen)
  ELSE IF HasAt(text, k, StyleClose) THEN Len(StyleClose)
  ELSE 0

RECURSIVE SkipSpace(_, _)
\* first position from k on that holds no white space
SkipSpace(text, k) ==
  IF k <= Len(text) /\ text[k] \in WhiteSpace THEN SkipSpace(text, k + 1) ELSE k

\* length of the match of /<fence>(\s*css)/ at position k, 0 when there is none
CssFenceAt(text, k) ==
  IF HasAt(text, k, Fence)
  THEN LET j == SkipSpace(text, k + Len(Fence))
       IN  IF HasAt(text, j, Css) THEN j + Len(Css) - k ELSE 0
  ELSE 0

RECURSIVE RemoveStyleTags(_, _)
\* .replace(/<\/?style>/g, ''), from position k on
RemoveStyleTags(text, k) ==
  IF k > Len(text) THEN <<>>
  ELSE LET n == StyleTagAt(text, k)
       IN  IF n > 0 THEN RemoveStyleTags(text, k + n)
           ELSE <<text[k]>> \o RemoveStyleTags(text, k + 1)

RECURSIVE RemoveCssFences(_, _)
\* .replace(/<fence>(\s*css)/g, ''), from position k on
RemoveCssFences(text, k) ==
  IF k > Len(text) THEN <<>>
  ELSE LET n == CssFenceAt(text, k)
       IN  IF n > 0 THEN RemoveCssFences(text, k + n)
           ELSE <<text[k]>> \o RemoveCssFences(text, k + 1)

\* variant of fillBlock that appends to the text already stored under name
fillBlockAppending(bs, name, lineList) ==
  IF lineList # <<>>
  THEN LET fullText ==
             IF name = StyleName
             THEN RemoveCssFences(RemoveStyleTags(JoinLines(lineList), 1), 1)
             ELSE JoinLines(Tail(lineList))
       IN  [n \in DOMAIN bs \cup {name} |->
              IF n = name
              THEN (IF n \in DOMAIN bs THEN bs[n] ELSE <<>>) \o fullText
              ELSE bs[n]]
  ELSE bs

\* variant of fillBlock that stores a block only when it has a body line
fillBlockWithBody(bs, name, lineList) ==
  IF Len(lineList) > 1
  THEN LET fullText ==
             IF name = StyleName
             THEN RemoveCssFences(RemoveStyleTags(JoinLines(lineList), 1), 1)
             ELSE JoinLines(Tail(lineList))
       IN  [n \in DOMAIN bs \cup {name} |-> IF n = name THEN fullText ELSE bs[n]]
  ELSE bs

\* fillBlock(name, lineList): the blocks mapping afterwards
fillBlock(bs, name, lineList) ==
  IF lineList # <<>>
  THEN LET fullText ==
             IF name = StyleName
             THEN RemoveCssFences(RemoveStyleTags(JoinLines(lineList), 1), 1)
             ELSE JoinLines(Tail(lineList))
       IN  [n \in DOMAIN bs \cup {name} |-> IF n = name THEN fullText ELSE bs[n]]
  ELSE bs

RECURSIVE SplitAt(_, _, _)
\* String.prototype.split(sep) for a separator of one character
SplitAt(text, sep, cur) ==
  IF text = <<>> THEN <<cur>>
  ELSE IF Head(text) = sep THEN <<cur>> \o SplitAt(Tail(text), sep, <<>>)
  ELSE SplitAt(Tail(text), sep, Append(cur, Head(text)))

\* the characters the regular expression class \w takes, among those of
\* this model
WordChars ==
  {"a", "b", "c", "d", "e", "h", "m", "n", "s", "t", "v", "x", "z",
   "C", "N", "S", "U", "1", "2", "_"}

\* path.replace(/\.\w+$/, ext): the last dot and the word after it, when the
\* path ends with them
ReplaceExtension(p, ext) ==
  LET dots == {k \in 1..(Len(p) - 1) :
                 p[k] = "." /\ \A j \in (k + 1)..Len(p) : p[j] \in WordChars}
  IN  IF dots = {} THEN p
      ELSE LET k == CHOOSE d \in dots : \A e \in dots : d <= e
           IN  SubSeq(p, 1, k - 1) \o ext

\* fs.existsSync(p) ? fs.readFileSync(p, 'utf-8') : ''
ReadOrEmpty(disk, p) == IF p \in DOMAIN disk THEN disk[p] ELSE <<>>

\* the source text without its type annotations
tsToJs(code) == SelectSeq(code, LAMBDA tok : tok # ": number")

\* variant of IsTruthy that takes every text as true
IsTruthyAlways(text) == TRUE

\* if (md): the empty string is falsy
IsTruthy(text) == text # <<>>

\* variant of GetBlock that falls back on the first other block
GetBlockOrOther(bs, name) ==
  IF name \in DOMAIN bs THEN Defined(bs[name])
  ELSE IF DOMAIN bs # {} THEN Defined(bs[CHOOSE n \in DOMAIN bs : TRUE])
  ELSE Undefined

\* blocks[name]: undefined when the object has no such property
GetBlock(bs, name) ==
  IF name \in DOMAIN bs THEN Defined(bs[name]) ELSE Undefined

-----------------------------------------------------------------------------
(* Markdown inputs *)

\* the example document: "## en-US", "Hello", "", "## zh-CN", U+4F60 U+597D, "",
\* a css fence, ".a{color:red}", a closing fence
ExampleLines ==
  << <<"#", "#", " ", "e", "n", "-", "U", "S">>,
     <<"H", "e", "l", "l", "o">>,
     <<>>,
     <<"#", "#", " ", "z", "h", "-", "C", "N">>,
     <<"U+4F60", "U+597D">>,
     <<>>,
     <<Backtick, Backtick, Backtick, "c", "s", "s">>,
     <<".", "a", "{", "c", "o", "l", "o", "r", ":", "r", "e", "d", "}">>,
     <<Backtick, Backtick, Backtick>> >>

ExampleMarkdown == JoinLines(ExampleLines)

\* lines the generated documents are made of
LineSet ==
  { <<"#", "#", " ", "a">>,
    <<"#", "#", " ", "b", " ">>,
    <<"#", "#", " ">>,
    <<"x">>,
    <<>>,
    <<Backtick, Backtick, Backtick, "c", "s", "s">>,
    <<Backtick, Backtick, Backtick>>,
    <<"<", "s", "t", "y", "l", "e", ">", "y">>,
    <<"<", "/", "s", "t", "y", "l", "e", ">">> }

MarkdownInputs ==
  {ExampleMarkdown} \cup {JoinLines(ls) : ls \in SeqsUpTo(LineSet, MaxLines)}

\* the demo file, its companion markdown file and the documents that embed it
DemoTsx  == <<"b", ".", "t", "s", "x">>
DemoMd   == <<"b", ".", "m", "d">>
DocZhCN  == <<"d", ".", "z", "h", "-", "C", "N", ".", "m", "d">>
DocEnUS  == <<"d", ".", "e", "n", "-", "U", "S", ".", "m", "d">>
DocPlain == <<"v", "1", ".", "2", "/", "d", ".", "m", "d">>

\* source text of a demo, in tokens
DemoCode == <<"const n", ": number", " = 1">>

\* props as the framework hands them in
PropsIn ==
  { NoProps,
    [description |-> Defined(<<"o", "l", "d">>),
     style       |-> Defined(<<"p", "{", "}">>),
     jsx         |-> Undefined] }

\* files on disk: the markdown file with text m or missing, the demo file
\* present or missing
Disks(mds) ==
  LET mdFiles  == {[f \in {} |-> <<>>]} \cup {[f \in {DemoMd} |-> m] : m \in mds}
      tsxFiles == {[f \in {} |-> <<>>], [f \in {DemoTsx} |-> DemoCode]}
  IN  {[f \in DOMAIN a \cup DOMAIN b |-> IF f \in DOMAIN a THEN a[f] ELSE b[f]] :
         a \in mdFiles, b \in tsxFiles}

\* documents of the calls in which everything but the markdown text varies
ShortMarkdown ==
  { <<>>,
    ExampleMarkdown,
    <<"x">>,
    JoinLines(<< <<"#", "#", " ", "z", "h", "-", "C", "N">>, <<"x">> >>) }

DemoInputs ==
  { [opts  |-> [type |-> "external", mdAbsPath |-> DocZhCN,
                fileAbsPath |-> DemoTsx, entryPointCode |-> <<>>],
     disk  |-> [f \in {DemoMd, DemoTsx} |-> IF f = DemoMd THEN m ELSE DemoCode],
     props |-> NoProps] : m \in MarkdownInputs }
  \cup
  { [opts  |-> [type |-> t, mdAbsPath |-> doc, fileAbsPath |-> DemoTsx,
                entryPointCode |-> e],
     disk  |-> d,
     props |-> p] :
       t \in {"external", "code-block"}, doc \in {DocZhCN, DocEnUS, DocPlain},
       e \in {<<>>, DemoCode}, d \in Disks(ShortMarkdown), p \in PropsIn }

InitParser ==
  /\ outputDir = NoFile
  /\ writeCount = [f \in {} |-> 0]
  /\ published = {}
  /\ ExportIdle
  /\ LocaleOff
  /\ RoutesOff
  /\ RaceOff
  /\ LinkOff
  /\ HeadOff
  /\ demo \in DemoInputs
  /\ props = demo.props
  /\ locale = <<>>
  /\ md = <<>>
  /\ lines = <<>>
  /\ i = 0
  /\ blockName = <<>>
  /\ cacheList = <<>>
  /\ blocks = [n \in {} |-> <<>>]
  /\ ppc = "enter"

\* lines 218-251: props.jsx, and for an external demo the locale, the
\* markdown text and the source text
EnterProps ==
  /\ ppc = "enter"
  /\ IF demo.opts.type = "external"
     THEN LET arr     == SplitAt(demo.opts.mdAbsPath, ".", <<>>)
              mdPath  == ReplaceExtension(demo.opts.fileAbsPath, <<".", "m", "d">>)
              tsxPath == ReplaceExtension(demo.opts.fileAbsPath, <<".", "t", "s", "x">>)
              code    == ReadOrEmpty(demo.disk, tsxPath)
          IN  /\ locale' = arr[Len(arr) - 1]
              /\ md' = ReadOrEmpty(demo.disk, mdPath)
              /\ props' = [props EXCEPT !.jsx = Defined(tsToJs(code))]
              /\ ppc' = "start"
     ELSE /\ props' = [props EXCEPT !.jsx =
                         IF demo.opts.entryPointCode # <<>>
                         THEN Defined(tsToJs(demo.opts.entryPointCode))
                         ELSE Defined(<<>>)]
          /\ ppc' = "done"
          /\ UNCHANGED <<locale, md>>
  /\ UNCHANGED <<lines, i, blockName, cacheList, blocks, demo>>

\* if (md) { const blocks = {}; const lines = md.split('\n'); ... }
StartParse ==
  /\ ppc = "start"
  /\ IF IsTruthy(md)
     THEN /\ lines' = SplitLines(md, <<>>)
          /\ i' = 1
          /\ ppc' = "scan"
     ELSE /\ ppc' = "done"
          /\ UNCHANGED <<lines, i>>
  /\ UNCHANGED <<md, blockName, cacheList, blocks, demo, locale, props>>

\* one pass of the for loop over lines
ScanLine ==
  /\ ppc = "scan"
  /\ i <= Len(lines)
  /\ LET line          == lines[i]
         nextBlockName == getBlockName(line)
     IN  IF Truthy(nextBlockName)
         THEN /\ blocks' = fillBlock(blocks, blockName, cacheList)
              /\ blockName' = nextBlockName.name
              /\ cacheList' = <<line>>
         ELSE /\ cacheList' = Append(cacheList, line)
              /\ UNCHANGED <<blocks, blockName>>
  /\ i' = i + 1
  /\ UNCHANGED <<md, lines, ppc, demo, locale, props>>

\* after the loop: fillBlock(blockName, cacheList), then
\* props.description = blocks[locale]; props.style = blocks.style
FinalFill ==
  /\ ppc = "scan"
  /\ i > Len(lines)
  /\ blocks' = fillBlock(blocks, blockName, cacheList)
  /\ props' = [props EXCEPT !.description = GetBlock(blocks', locale),
                            !.style = GetBlock(blocks', StyleName)]
  /\ ppc' = "done"
  /\ UNCHANGED <<md, lines, i, blockName, cacheList, demo, locale>>

ParserNext ==
  \/ EnterProps /\ UNCHANGED <<exportVars, localeVars, routeVars, raceVars, linkVars, headVars>>
  \/ StartParse /\ UNCHANGED <<exportVars, localeVars, routeVars, raceVars, linkVars, headVars>>
  \/ ScanLine /\ UNCHANGED <<exportVars, localeVars, routeVars, raceVars, linkVars, headVars>>
  \/ FinalFill /\ UNCHANGED <<exportVars, localeVars, routeVars, raceVars, linkVars, headVars>>

SpecParser == InitParser /\ [][ParserNext]_vars


-----------------------------------------------------------------------------
(* Claims about the markdown parser, checked under SpecParser *)

Contains(text, word) == \E k \in 1..Len(text) : HasAt(text, k, word)

\* C8 (as claimed): the example document parses to exactly en-US = "Hello\n",
\* zh-CN = U+4F60 U+597D "\n", style = ".a{color:red}\n".
C8_ExampleBlocks ==
  (md = ExampleMarkdown /\ ppc = "done") =>
    /\ DOMAIN blocks = { <<"e", "n", "-", "U", "S">>,
                         <<"z", "h", "-", "C", "N">>,
                         <<"s", "t", "y", "l", "e">> }
    /\ blocks[<<"e", "n", "-", "U", "S">>] = <<"H", "e", "l", "l", "o", "\n">>
    /\ blocks[<<"z", "h", "-", "C", "N">>] = <<"U+4F60", "U+597D", "\n">>
    /\ blocks[<<"s", "t", "y", "l", "e">>] =
         <<".", "a", "{", "c", "o", "l", "o", "r", ":", "r", "e", "d", "}", "\n">>

\* the lines of the document
InputLines == SplitLines(md, <<>>)

\* positions of the lines that start with the level-2 heading marker
HeadingLines == {k \in 1..Len(InputLines) : StartsWith(InputLines[k], <<"#", "#", " ">>)}

\* no line starts a css fence or a style tag
NoStyleMarker ==
  \A k \in 1..Len(InputLines) :
    /\ ~StartsWith(InputLines[k], <<Backtick, Backtick, Backtick, "c", "s", "s">>)
    /\ ~StartsWith(InputLines[k], <<"<", "s", "t", "y", "l", "e", ">">>)

\* the blocks stored under a name other than the empty one
NamedBlocks == DOMAIN blocks \ {<<>>}

\* C9 (as claimed): a document with N heading lines and no style marker
\* parses to exactly N blocks besides the prefix block.
C9_BlockPerHeadingLine ==
  (ppc = "done" /\ NoStyleMarker) =>
    Cardinality(NamedBlocks) = Cardinality(HeadingLines)

\* C9 (amended): a document with N heading lines and no style marker parses
\* to exactly one block for each distinct non-empty trimmed heading name, so
\* to at most N blocks, besides the prefix block.
C9_BlockPerHeadingName ==
  (ppc = "done" /\ NoStyleMarker) =>
    /\ NamedBlocks =
         {Trim(SubSeq(InputLines[k], 4, Len(InputLines[k]))) : k \in HeadingLines}
           \ {<<>>}
    /\ Cardinality(NamedBlocks) <= Cardinality(HeadingLines)

\* C9 witness: a parsed document without style marker in which two heading
\* lines carry the same non-empty name and a third carries another.
C9_Witness ==
  /\ ppc = "done"
  /\ NoStyleMarker
  /\ Cardinality(HeadingLines) = 3
  /\ Cardinality(NamedBlocks) = 2
  /\ \E k, l \in HeadingLines :
       /\ k < l
       /\ InputLines[k] = InputLines[l]
       /\ Trim(SubSeq(InputLines[k], 4, Len(InputLines[k]))) # <<>>

\* C10 (as claimed): the stored style text holds no style tag and no fence
\* marker.
C10_StyleTextBare ==
  <<"s", "t", "y", "l", "e">> \in DOMAIN blocks =>
    LET text == blocks[<<"s", "t", "y", "l", "e">>]
    IN  /\ ~Contains(text, <<"<", "s", "t", "y", "l", "e", ">">>)
        /\ ~Contains(text, <<"<", "/", "s", "t", "y", "l", "e", ">">>)
        /\ ~Contains(text, <<Backtick, Backtick, Backtick>>)


-----------------------------------------------------------------------------
(* The locale functions of the head script: isZhCN, getLocalizedPathname *)

CnSuffix  == <<"-", "c", "n">>
IndexWord == <<"i", "n", "d", "e", "x">>

\* String.prototype.indexOf(word) counted from 1; 0 when word does not occur
FirstIndexOf(text, word) ==
  IF \E k \in 1..Len(text) : HasAt(text, k, word)
  THEN CHOOSE k \in 1..Len(text) :
         HasAt(text, k, word) /\ \A j \in 1..(k - 1) : ~HasAt(text, j, word)
  ELSE 0

\* String.prototype.replace(word, replacement) with a string pattern: the
\* first occurrence only
ReplaceFirstWord(text, word, replacement) ==
  LET k == FirstIndexOf(text, word)
  IN  IF k = 0 THEN text
      ELSE SubSeq(text, 1, k - 1) \o replacement
             \o SubSeq(text, k + Len(word), Len(text))

\* /-cn\/?$/.test(pathname)
isZhCN(pathname) ==
  LET n == Len(pathname)
  IN  \/ n >= 3 /\ SubSeq(pathname, n - 2, n) = CnSuffix
      \/ n >= 4 /\ pathname[n] = "/" /\ SubSeq(pathname, n - 3, n - 1) = CnSuffix

\* /\/?index(-cn)?/.test(pathname): the expression is not anchored
MatchesIndex(pathname) ==
  \E k \in 1..Len(pathname) :
    \/ HasAt(pathname, k, IndexWord)
    \/ pathname[k] = "/" /\ HasAt(pathname, k + 1, IndexWord)

\* pathname.replace(/\/$/, '-cn/')
ReplaceTrailingSlash(pathname) ==
  IF pathname # <<>> /\ pathname[Len(pathname)] = "/"
  THEN SubSeq(pathname, 1, Len(pathname) - 1) \o CnSuffix \o <<"/">>
  ELSE pathname

\* variant of getLocalizedPathname without the branch for the home page
getLocalizedPathnameNoHome(p, cn) ==
  LET pathname == IF FirstIndexOf(p, <<"/">>) = 1 THEN p ELSE <<"/">> \o p
  IN  IF ~cn
      THEN IF MatchesIndex(pathname) THEN <<"/">>
           ELSE ReplaceFirstWord(pathname, CnSuffix, <<>>)
      ELSE pathname \o CnSuffix

\* getLocalizedPathname(path, zhCN); indexOf('/') === length - 1 compares
\* positions counted from 0, here from 1
getLocalizedPathname(p, cn) ==
  LET pathname == IF FirstIndexOf(p, <<"/">>) = 1 THEN p ELSE <<"/">> \o p
  IN  IF ~cn
      THEN IF MatchesIndex(pathname) THEN <<"/">>
           ELSE ReplaceFirstWord(pathname, CnSuffix, <<>>)
      ELSE IF pathname = <<"/">>
      THEN <<"/">> \o IndexWord \o CnSuffix
      ELSE IF FirstIndexOf(pathname, <<"/">>) = Len(pathname)
      THEN ReplaceTrailingSlash(pathname)
      ELSE pathname \o CnSuffix

-----------------------------------------------------------------------------
(* Path inputs *)

MaxPieces == 4     \* pieces a generated path is made of

ComponentsButton ==
  <<"/", "c", "o", "m", "p", "o", "n", "e", "n", "t", "s",
    "/", "b", "u", "t", "t", "o", "n">>

PathPieces == { <<"/">>, <<"a">>, CnSuffix, IndexWord, <<"-", "c">>, <<"n">> }

PathInputs ==
  { ComponentsButton, ComponentsButton \o CnSuffix, ComponentsButton \o <<"/">> }
    \cup {Flatten(ps) : ps \in SeqsUpTo(PathPieces, MaxPieces)}

InitLocale ==
  /\ outputDir = NoFile
  /\ writeCount = [f \in {} |-> 0]
  /\ published = {}
  /\ ExportIdle
  /\ ParserOff
  /\ RoutesOff
  /\ RaceOff
  /\ LinkOff
  /\ HeadOff
  /\ path \in PathInputs
  /\ zhCN \in BOOLEAN
  /\ localized = <<>>
  /\ relocalized = <<>>
  /\ switched = <<>>
  /\ lpc = "call"

\* location.pathname = getLocalizedPathname(pathname, zhCN)
Localize ==
  /\ lpc = "call"
  /\ localized' = getLocalizedPathname(path, zhCN)
  /\ lpc' = "again"
  /\ UNCHANGED <<path, zhCN, relocalized, switched>>

\* the function applied to its own result, with the same flag and with the
\* other one
Relocalize ==
  /\ lpc = "again"
  /\ relocalized' = getLocalizedPathname(localized, zhCN)
  /\ switched' = getLocalizedPathname(localized, ~zhCN)
  /\ lpc' = "done"
  /\ UNCHANGED <<path, zhCN, localized>>

LocaleNext ==
  \/ Localize /\ UNCHANGED <<exportVars, parserVars, routeVars, raceVars, linkVars, headVars>>
  \/ Relocalize /\ UNCHANGED <<exportVars, parserVars, routeVars, raceVars, linkVars, headVars>>

SpecLocale == InitLocale /\ [][LocaleNext]_vars

-----------------------------------------------------------------------------
(* Claims about the locale functions, checked under SpecLocale *)

EndsWith(text, word) ==
  /\ Len(text) >= Len(word)
  /\ SubSeq(text, Len(text) - Len(word) + 1, Len(text)) = word

\* the path made to start with "/"
Normalized(p) == IF p # <<>> /\ p[1] = "/" THEN p ELSE <<"/">> \o p

\* isLocaleB: the path ends with "-cn", optionally followed by one "/"
IsLocaleB(p) == EndsWith(p, <<"-", "c", "n">>) \/ EndsWith(p, <<"-", "c", "n", "/">>)

\* C11 (as claimed): resolve(resolve(p, b), b) = resolve(p, b) for every path
\* p and flag b.
C11_Idempotent ==
  lpc = "done" => relocalized = localized

\* C12 (as claimed): isLocaleB(resolve(p, true)) holds and
\* isLocaleB(resolve(p, false)) does not, for every path p.
C12_ResultInWantedLocale ==
  lpc \in {"again", "done"} => (IsLocaleB(localized) <=> zhCN)

\* C13: resolve("/components/button", true) = "/components/button-cn",
\* resolve("/components/button-cn", false) = "/components/button",
\* resolve("/", true) = "/index-cn".
C13_Examples ==
  lpc \in {"again", "done"} =>
    /\ (path = ComponentsButton /\ zhCN) =>
         localized = ComponentsButton \o <<"-", "c", "n">>
    /\ (path = ComponentsButton \o <<"-", "c", "n">> /\ ~zhCN) =>
         localized = ComponentsButton
    /\ (path = <<"/">> /\ zhCN) =>
         localized = <<"/", "i", "n", "d", "e", "x", "-", "c", "n">>

\* C13 witness: the home page has been resolved for the suffixed locale.
C13_Witness ==
  /\ lpc = "again"
  /\ path = <<"/">>
  /\ zhCN
  /\ localized = <<"/", "i", "n", "d", "e", "x", "-", "c", "n">>

\* C14 (as claimed): for a path other than the root that ends with "/",
\* resolve(p, true) puts "-cn" before that "/".
C14_SuffixBeforeTrailingSlash ==
  (/\ lpc \in {"again", "done"}
   /\ zhCN
   /\ Normalized(path) # <<"/">>
   /\ EndsWith(path, <<"/">>))
  => localized = SubSeq(Normalized(path), 1, Len(Normalized(path)) - 1)
                   \o <<"-", "c", "n", "/">>

\* C15 (as claimed): resolve(p, false) is "/" exactly for the forms "/",
\* "/index", "/index-cn" of the normalized path; any other path comes back
\* with its trailing "-cn" (before an optional last "/") removed and nothing
\* else changed, so unchanged when it has no such suffix.
C15_DefaultLocaleForm ==
  (lpc \in {"again", "done"} /\ ~zhCN) =>
    LET pn    == Normalized(path)
        n     == Len(pn)
        homes == { <<"/">>, <<"/", "i", "n", "d", "e", "x">>,
                   <<"/", "i", "n", "d", "e", "x", "-", "c", "n">> }
    IN  IF pn \in homes THEN localized = <<"/">>
        ELSE IF EndsWith(pn, <<"-", "c", "n">>)
        THEN localized = SubSeq(pn, 1, n - 3)
        ELSE IF EndsWith(pn, <<"-", "c", "n", "/">>)
        THEN localized = SubSeq(pn, 1, n - 4) \o <<"/">>
        ELSE localized = pn


-----------------------------------------------------------------------------
(* Claims about the style extractor, checked under Spec *)

\* the caches whose critical css for html is not empty
Emitting(html) ==
  {k \in 1..Len(styleCaches) :
     CriticalOf(styleCaches[k].key, styleCaches[k].inserted, html).css # ""}

\* C16: the fragments extracted for a page are, in cache order, one for each
\* cache whose critical css for the page is non-empty and none for the other
\* caches; each carries its cache's key and that cache's css and rule ids.
C16_FragmentPerUsedCache ==
  pc = "forEach" =>
    LET html == Rendered[fileIdx].content
        used == Emitting(html)
    IN  /\ Len(styles) = Cardinality(used)
        /\ \A n \in 1..Len(styles) :
             LET k == CHOOSE c \in used : Cardinality({d \in used : d <= c}) = n
                 r == CriticalOf(styleCaches[k].key, styleCaches[k].inserted, html)
             IN  /\ styles[n].key = styleCaches[k].key
                 /\ styles[n].css = r.css
                 /\ styles[n].ids = r.ids

\* C16 witness: of two caches, one gave a fragment for the page and the other,
\* with empty css, gave none.
C16_Witness ==
  /\ pc = "forEach"
  /\ Len(styleCaches) = 2
  /\ Len(styles) = 1
  /\ Cardinality(Emitting(Rendered[fileIdx].content)) = 1


-----------------------------------------------------------------------------
(* api.modifyRoutes((routes) => ...) *)

\* directory of the plugin file and the files its routes point to, as path
\* segments below the repository's parent directory
PluginDir == <<"repo", "packages", "x", ".dumi", "theme">>

ChangelogZhCN == <<"..", "..", "..", "..", "CHANGELOG.zh-CN.md">>
ChangelogEnUS == <<"..", "..", "..", "..", "CHANGELOG.en-US.md">>

RECURSIVE AbsolutePath(_, _)
\* the absolute file name of a relative path seen from dir
AbsolutePath(dir, rel) ==
  IF rel = <<>> THEN dir
  ELSE IF Head(rel) = ".."
  THEN AbsolutePath(IF dir = <<>> THEN dir ELSE SubSeq(dir, 1, Len(dir) - 1),
                    Tail(rel))
  ELSE AbsolutePath(Append(dir, Head(rel)), Tail(rel))

\* resolve(p) = require.resolve(p): the absolute file name; it throws when
\* the file is not there
resolve(p) == AbsolutePath(PluginDir, p)

Resolves(p) == resolve(p) \in resolvable

extraRoutesList ==
  << [id |-> "changelog-cn", path |-> "changelog-cn",
      absPath |-> "/changelog-cn", parentId |-> "DocLayout",
      file |-> resolve(ChangelogZhCN)],
     [id |-> "changelog", path |-> "changelog",
      absPath |-> "/changelog", parentId |-> "DocLayout",
      file |-> resolve(ChangelogEnUS)] >>

\* variant of SetRoute that keeps an entry that is already there
SetRouteIfAbsent(rs, itemRoute) ==
  [k \in DOMAIN rs \cup {itemRoute.path} |->
     IF k \in DOMAIN rs THEN rs[k] ELSE itemRoute]

\* routes[itemRoute.path] = itemRoute
SetRoute(rs, itemRoute) ==
  [k \in DOMAIN rs \cup {itemRoute.path} |->
     IF k = itemRoute.path THEN itemRoute ELSE rs[k]]

RECURSIVE MergeRoutes(_, _)
\* extraRoutesList.forEach((itemRoute) => { routes[itemRoute.path] = itemRoute })
MergeRoutes(rs, list) ==
  IF list = <<>> THEN rs
  ELSE MergeRoutes(SetRoute(rs, Head(list)), Tail(list))

\* Routes the framework may have collected before the plugin's callback runs
RouteKeys == {"index", "components/button", "changelog", "changelog-cn"}

DocRoute(k, layout, dir) ==
  [id |-> k, path |-> k, absPath |-> "/" \o k, parentId |-> layout,
   file |-> <<"repo", dir, k \o ".md">>]

RouteChoices(k) == { DocRoute(k, "DocLayout", "docs"), DocRoute(k, "DemoLayout", "pages") }

RouteTables ==
  UNION { { t \in [ks -> UNION {RouteChoices(k) : k \in ks}] :
              \A k \in ks : t[k] \in RouteChoices(k) } : ks \in SUBSET RouteKeys }

InitRoutes ==
  /\ outputDir = NoFile
  /\ writeCount = [f \in {} |-> 0]
  /\ published = {}
  /\ ExportIdle
  /\ ParserOff
  /\ LocaleOff
  /\ RaceOff
  /\ LinkOff
  /\ HeadOff
  /\ routesIn \in RouteTables
  /\ routes = routesIn
  /\ resolvable \in SUBSET {resolve(ChangelogZhCN), resolve(ChangelogEnUS)}
  /\ rpc = "call"

\* the callback builds extraRoutesList, merges it into routes and returns routes
ModifyRoutes ==
  /\ rpc = "call"
  /\ Resolves(ChangelogZhCN)
  /\ Resolves(ChangelogEnUS)
  /\ routes' = MergeRoutes(routes, extraRoutesList)
  /\ rpc' = "done"
  /\ UNCHANGED <<routesIn, resolvable>>

\* require.resolve throws while extraRoutesList is built: the callback is left
\* before any route is set
ModifyRoutesThrows ==
  /\ rpc = "call"
  /\ ~(Resolves(ChangelogZhCN) /\ Resolves(ChangelogEnUS))
  /\ rpc' = "threw"
  /\ UNCHANGED <<routesIn, routes, resolvable>>

RoutesNext ==
  \/ ModifyRoutes /\ UNCHANGED <<exportVars, parserVars, localeVars, raceVars, linkVars, headVars>>
  \/ ModifyRoutesThrows /\ UNCHANGED <<exportVars, parserVars, localeVars, raceVars, linkVars, headVars>>

SpecRoutes == InitRoutes /\ [][RoutesNext]_vars

-----------------------------------------------------------------------------
(* Claims about the route table, checked under SpecRoutes *)

\* C17: when the callback returns, the table holds under "changelog-cn" and
\* "changelog" the two fixed routes, whatever was under these keys before,
\* and under every other key what it held before; it has no further key.
C17_ExtraRoutesSet ==
  rpc = "done" =>
    /\ DOMAIN routes = DOMAIN routesIn \cup {"changelog-cn", "changelog"}
    /\ routes["changelog-cn"] =
         [id |-> "changelog-cn", path |-> "changelog-cn",
          absPath |-> "/changelog-cn", parentId |-> "DocLayout",
          file |-> <<"repo", "CHANGELOG.zh-CN.md">>]
    /\ routes["changelog"] =
         [id |-> "changelog", path |-> "changelog",
          absPath |-> "/changelog", parentId |-> "DocLayout",
          file |-> <<"repo", "CHANGELOG.en-US.md">>]
    /\ \A k \in DOMAIN routesIn \ {"changelog-cn", "changelog"} :
         routes[k] = routesIn[k]

\* C17 witness: the callback has returned a table in which the route that was
\* under "changelog" is replaced and the route under "index" is kept.
C17_Witness ==
  /\ rpc = "done"
  /\ "changelog" \in DOMAIN routesIn
  /\ routes["changelog"] # routesIn["changelog"]
  /\ "index" \in DOMAIN routesIn
  /\ routes["index"] = routesIn["index"]


-----------------------------------------------------------------------------
(* Claims about a failing write, checked under Spec *)

\* C18: once fs.writeFileSync has thrown for a fragment, the export is left:
\* the name of that fragment is not returned and not in the output directory,
\* no page carries a link to it, the pages after the current one are as they
\* were rendered, and the only step that follows is the end of the build,
\* which publishes nothing.
C18_WriteFailureAborts ==
  /\ [](failed # "" =>
          /\ pc = "threw"
          /\ cssFile # failed
          /\ failed \notin DOMAIN outputDir
          /\ \A k \in 1..Len(out) :
               ~Includes(out[k].content,
                         "<link rel=\"stylesheet\" href=\"/" \o failed \o "\">")
          /\ \A k \in (fileIdx + 1)..Len(out) :
               out[k].content = Rendered[k].content)
  /\ [][failed # "" =>
          /\ pc' = "idle"
          /\ outputDir' = outputDir
          /\ published' = published]_vars

\* C18 witness: a write has thrown on a page that is not the last one, after
\* an earlier fragment of the export was published.
C18_Witness ==
  /\ pc = "threw"
  /\ failed # ""
  /\ fileIdx < Len(out)
  /\ lastCall.called


-----------------------------------------------------------------------------
(* Builds that run writeCSSFile at the same time on one output directory *)

\* variant of existsSync that never finds the file
existsSyncNever(dir, fileName) == FALSE

\* fs.existsSync(filePath)
existsSync(dir, fileName) == fileName \in DOMAIN dir

\* fs.writeFileSync(filePath, cssString, 'utf8')
writeFileSync(dir, fileName, cssString) ==
  [f \in DOMAIN dir \cup {fileName} |-> IF f = fileName THEN cssString ELSE dir[f]]

Builds == 1..MaxBuilds

\* fragments a build may have to publish
RaceJobs ==
  { [key |-> "antd", ids |-> <<IdA>>, css |-> ".antd-a{}"],
    [key |-> "antd", ids |-> <<IdA>>, css |-> ".antd-a{color:red}"],
    [key |-> "antd", ids |-> <<IdB>>, css |-> ".antd-b{}"],
    [key |-> "css",  ids |-> <<IdA>>, css |-> ".css-a{}"] }

JobFile(b) == FileName(raceJob[b].key, HashKey(raceJob[b].ids))

\* output directories an earlier build may have left; each file written once
RaceDirs ==
  { NoFile,
    [f \in {FileName("antd", HashKey(<<IdA>>))} |-> ".antd-a{}"] }

InitRace ==
  /\ outputDir \in RaceDirs
  /\ writeCount = [f \in DOMAIN outputDir |-> 1]
  /\ published = {}
  /\ ExportIdle
  /\ ParserOff
  /\ LocaleOff
  /\ RoutesOff
  /\ LinkOff
  /\ HeadOff
  /\ raceJob \in [Builds -> RaceJobs]
  /\ racePc = [b \in Builds |-> "check"]
  /\ raceOverlap = {}

\* line 416: if (!fs.existsSync(filePath))
RaceCheck(b) ==
  /\ racePc[b] = "check"
  /\ IF existsSync(outputDir, JobFile(b))
     THEN /\ racePc' = [racePc EXCEPT ![b] = "done"]
          /\ UNCHANGED raceOverlap
     ELSE /\ racePc' = [racePc EXCEPT ![b] = "write"]
          /\ raceOverlap' =
               IF \E c \in Builds \ {b} : racePc[c] = "write" /\ JobFile(c) = JobFile(b)
               THEN raceOverlap \cup {JobFile(b)}
               ELSE raceOverlap
  /\ UNCHANGED <<raceJob, outputDir, writeCount>>

\* line 418: fs.writeFileSync(filePath, cssString, 'utf8'); return fileName
RaceWrite(b) ==
  /\ racePc[b] = "write"
  /\ outputDir' = writeFileSync(outputDir, JobFile(b), raceJob[b].css)
  /\ writeCount' = [f \in DOMAIN writeCount \cup {JobFile(b)} |->
                      IF f = JobFile(b)
                      THEN (IF f \in DOMAIN writeCount THEN writeCount[f] ELSE 0) + 1
                      ELSE writeCount[f]]
  /\ racePc' = [racePc EXCEPT ![b] = "done"]
  /\ UNCHANGED <<raceJob, raceOverlap>>

RaceNext ==
  \/ \E b \in Builds :
       /\ RaceCheck(b)
       /\ UNCHANGED <<styleCaches, files, out, fileIdx, styles, styleIdx,
                      cssFile, pc, published, lastCall, failed>>
       /\ UNCHANGED <<parserVars, localeVars, routeVars, linkVars, headVars>>
  \/ \E b \in Builds :
       /\ RaceWrite(b)
       /\ UNCHANGED <<styleCaches, files, out, fileIdx, styles, styleIdx,
                      cssFile, pc, published, lastCall, failed>>
       /\ UNCHANGED <<parserVars, localeVars, routeVars, linkVars, headVars>>

SpecRace == InitRace /\ [][RaceNext]_vars

-----------------------------------------------------------------------------
(* Claims about concurrent builds, checked under SpecRace *)

\* C19: a file name is written more than once only if a build tested it absent
\* while another build stood between its own test and its write of that name;
\* builds whose test-and-write pairs do not interleave write every name at
\* most once.  (That the double write is reachable is the witness.)
C19_DoubleWriteOnlyInGap ==
  \A f \in DOMAIN writeCount : writeCount[f] >= 2 => f \in raceOverlap

\* C19 witness: two builds both found the name absent and both wrote it.
C19_Witness ==
  \E f \in DOMAIN writeCount :
    /\ writeCount[f] = 2
    /\ f \in raceOverlap
    /\ \E b, c \in Builds : b # c /\ racePc[b] = "done" /\ racePc[c] = "done"
                            /\ JobFile(b) = f /\ JobFile(c) = f


-----------------------------------------------------------------------------
(* Claims about malformed markdown, checked under SpecParser *)

\* the line starts a block: a heading with a non-empty name, a css fence or
\* an opening style tag
IsStart(line) ==
  \/ /\ StartsWith(line, <<"#", "#", " ">>)
     /\ Trim(SubSeq(line, 4, Len(line))) # <<>>
  \/ StartsWith(line, <<Backtick, Backtick, Backtick, "c", "s", "s">>)
  \/ StartsWith(line, <<"<", "s", "t", "y", "l", "e", ">">>)

StartName(line) ==
  IF StartsWith(line, <<"#", "#", " ">>)
  THEN Trim(SubSeq(line, 4, Len(line)))
  ELSE <<"s", "t", "y", "l", "e">>

Starts == {k \in 1..Len(InputLines) : IsStart(InputLines[k])}

\* where the blocks of the document begin; 0 is the initial block, which has
\* lines only when the first line starts no block
BlockStarts == Starts \cup (IF 1 \in Starts THEN {} ELSE {0})

BlockEnd(s) ==
  IF \E t \in Starts : t > s
  THEN (CHOOSE t \in Starts : t > s /\ \A u \in Starts : u > s => t <= u) - 1
  ELSE Len(InputLines)

NameAt(s) == IF s = 0 THEN <<>> ELSE StartName(InputLines[s])

LinesAt(s) == SubSeq(InputLines, IF s = 0 THEN 1 ELSE s, BlockEnd(s))

\* the block that line k belongs to
OwnerOf(k) == CHOOSE s \in BlockStarts : s <= k /\ k <= BlockEnd(s)

\* the last block of the document that carries name n
LastNamed(n) ==
  CHOOSE s \in BlockStarts :
    NameAt(s) = n /\ \A t \in BlockStarts : NameAt(t) = n => t <= s

\* what the parser stores for the block that begins at s
TextAt(s) ==
  IF NameAt(s) = <<"s", "t", "y", "l", "e">>
  THEN RemoveCssFences(RemoveStyleTags(JoinLines(LinesAt(s)), 1), 1)
  ELSE JoinLines(Tail(LinesAt(s)))

\* the parser is at its end or can take a step
Completes == ppc = "done" \/ ENABLED ParserNext

\* C20 (as claimed): the parser completes on every document, and every line
\* that starts no block is a line of the text stored for the block it belongs
\* to.
C20_EveryLineKept ==
  /\ Completes
  /\ (ppc = "done" /\ md # <<>>) =>
       \A k \in (1..Len(InputLines)) \ Starts :
         LET n == NameAt(OwnerOf(k))
         IN  /\ n \in DOMAIN blocks
             /\ \E j \in 1..Len(SplitLines(blocks[n], <<>>)) :
                  SplitLines(blocks[n], <<>>)[j] = InputLines[k]

\* C20 (amended): the parser completes on every document; the blocks stored
\* are those of the names the document's blocks carry, and the text under a
\* name is that of the last block with this name: all its lines joined, with
\* style tags and css fence openers removed, for a style block; its lines
\* after the first one joined for any other block, the initial block
\* included, whose first line is the document's first line.
C20_LastBlockTextKept ==
  /\ Completes
  /\ (ppc = "done" /\ md = <<>>) => DOMAIN blocks = {}
  /\ (ppc = "done" /\ md # <<>>) =>
       /\ DOMAIN blocks = {NameAt(s) : s \in BlockStarts}
       /\ \A n \in DOMAIN blocks : blocks[n] = TextAt(LastNamed(n))

\* C20 witness: a parsed document that begins with a non-empty line that
\* starts no block, holds a closing fence or closing style tag outside a style
\* block, and has a heading after it.
C20_Witness ==
  /\ ppc = "done"
  /\ InputLines[1] # <<>>
  /\ 1 \notin Starts
  /\ <<>> \in DOMAIN blocks
  /\ \E k \in 1..Len(InputLines) :
       /\ InputLines[k] \in { <<Backtick, Backtick, Backtick>>,
                              <<"<", "/", "s", "t", "y", "l", "e", ">">> }
       /\ NameAt(OwnerOf(k)) # <<"s", "t", "y", "l", "e">>
  /\ Cardinality(DOMAIN blocks) >= 2


-----------------------------------------------------------------------------
(* Claims about repeated block names, checked under SpecParser *)

\* C21: when two blocks of a document carry the same name, the mapping holds
\* under that name the text of the later one of them that no further block of
\* the name follows, and nothing of the earlier one is kept with it.
C21_LastBlockWins ==
  ppc = "done" =>
    \A s, t \in BlockStarts :
      (/\ s < t
       /\ NameAt(s) = NameAt(t)
       /\ \A u \in BlockStarts : NameAt(u) = NameAt(t) => u <= t)
      => /\ NameAt(t) \in DOMAIN blocks
         /\ blocks[NameAt(t)] = TextAt(t)
         /\ Len(blocks[NameAt(t)]) = Len(TextAt(t))

\* C21 witness: a parsed document with two blocks of one name whose texts
\* differ, the earlier one not empty; the mapping holds the later text.
C21_Witness ==
  /\ ppc = "done"
  /\ \E s, t \in BlockStarts :
       /\ s < t
       /\ NameAt(s) = NameAt(t)
       /\ \A u \in BlockStarts : NameAt(u) = NameAt(t) => u <= t
       /\ TextAt(s) # <<>>
       /\ TextAt(s) # TextAt(t)
       /\ blocks[NameAt(t)] = TextAt(t)


-----------------------------------------------------------------------------
(* Claims about the lines that start a block, checked under SpecParser *)

\* the mapping after the block in progress is flushed
Flushed ==
  IF cacheList = <<>> THEN blocks
  ELSE [n \in DOMAIN blocks \cup {blockName} |->
          IF n # blockName THEN blocks[n]
          ELSE IF blockName = <<"s", "t", "y", "l", "e">>
          THEN RemoveCssFences(RemoveStyleTags(JoinLines(cacheList), 1), 1)
          ELSE JoinLines(Tail(cacheList))]

\* the loop is about to read a line
AtLine == ppc = "scan" /\ i <= Len(lines)

IsHeading(line) == StartsWith(line, <<"#", "#", " ">>)

HeadingName(line) == Trim(SubSeq(line, 4, Len(line)))

IsStyleStart(line) ==
  \/ StartsWith(line, <<Backtick, Backtick, Backtick, "c", "s", "s">>)
  \/ StartsWith(line, <<"<", "s", "t", "y", "l", "e", ">">>)

\* C22 (as claimed): every line that starts with "## " flushes the block in
\* progress and starts a block named by the trimmed rest of the line, be it
\* empty; every line that starts with a css fence or a style tag does so with
\* the name "style".
C22_EveryHeadingStartsBlock ==
  [][ /\ (AtLine /\ IsHeading(lines[i])) =>
           /\ blocks' = Flushed
           /\ blockName' = HeadingName(lines[i])
           /\ cacheList' = <<lines[i]>>
      /\ (AtLine /\ IsStyleStart(lines[i])) =>
           /\ blocks' = Flushed
           /\ blockName' = <<"s", "t", "y", "l", "e">>
           /\ cacheList' = <<lines[i]>> ]_vars

\* C22 (amended): a line that starts with "## " and has a non-empty trimmed
\* rest flushes the block in progress and starts a block of that name; a line
\* that starts with a css fence or a style tag does so with the name "style";
\* a line that starts with "## " and has an empty trimmed rest is added to the
\* block in progress like any other line.
C22_NamedHeadingStartsBlock ==
  [][ /\ (AtLine /\ IsHeading(lines[i]) /\ HeadingName(lines[i]) # <<>>) =>
           /\ blocks' = Flushed
           /\ blockName' = HeadingName(lines[i])
           /\ cacheList' = <<lines[i]>>
      /\ (AtLine /\ IsStyleStart(lines[i])) =>
           /\ blocks' = Flushed
           /\ blockName' = <<"s", "t", "y", "l", "e">>
           /\ cacheList' = <<lines[i]>>
      /\ (AtLine /\ IsHeading(lines[i]) /\ HeadingName(lines[i]) = <<>>) =>
           /\ blocks' = blocks
           /\ blockName' = blockName
           /\ cacheList' = Append(cacheList, lines[i]) ]_vars

\* C22 witness: a heading with a padded name has started a block and the
\* next line, a heading without a name, has been added to that block.
C22_Witness ==
  /\ ppc = "scan"
  /\ i >= 3
  /\ IsHeading(lines[i - 2])
  /\ SubSeq(lines[i - 2], 4, Len(lines[i - 2])) # HeadingName(lines[i - 2])
  /\ IsHeading(lines[i - 1])
  /\ HeadingName(lines[i - 1]) = <<>>
  /\ blockName = HeadingName(lines[i - 2])
  /\ cacheList = <<lines[i - 2], lines[i - 1]>>


-----------------------------------------------------------------------------
(* Claims about the props of an external demo, checked under SpecParser *)

\* positions of the dots of the embedding document's path
DocDots == {k \in 1..Len(demo.opts.mdAbsPath) : demo.opts.mdAbsPath[k] = "."}

LastDot == CHOOSE k \in DocDots : \A j \in DocDots : j <= k

\* the dot before the last one, 0 when there is none
DotBefore ==
  IF DocDots = {LastDot} THEN 0
  ELSE CHOOSE k \in DocDots \ {LastDot} : \A j \in DocDots \ {LastDot} : j <= k

\* C23: for an external demo the locale is the segment between the last two
\* dots of the embedding document's path; after parsing, the description is
\* the text of the block of exactly that name, absent when there is none, and
\* the style is the text of the block named style.
C23_DescriptionOfLocale ==
  (demo.opts.type = "external" /\ ppc \in {"start", "scan", "done"}) =>
    /\ locale = SubSeq(demo.opts.mdAbsPath, DotBefore + 1, LastDot - 1)
    /\ (ppc = "done" /\ md # <<>>) =>
         /\ props.description.defined = (locale \in DOMAIN blocks)
         /\ props.description.defined => props.description.text = blocks[locale]
         /\ props.style.defined = (<<"s", "t", "y", "l", "e">> \in DOMAIN blocks)
         /\ props.style.defined =>
              props.style.text = blocks[<<"s", "t", "y", "l", "e">>]

\* C23 witness: the document has blocks of other locales and a style block
\* but none of the embedding document's locale; the description the props came
\* with is gone and the style is set.
C23_Witness ==
  /\ ppc = "done"
  /\ demo.opts.type = "external"
  /\ locale \notin DOMAIN blocks
  /\ <<"e", "n", "-", "U", "S">> \in DOMAIN blocks
  /\ demo.props.description.defined
  /\ ~props.description.defined
  /\ props.style.defined

\* the demo's markdown file and source file, by name
MdMissing == <<"b", ".", "m", "d">> \notin DOMAIN demo.disk

TsxMissing == <<"b", ".", "t", "s", "x">> \notin DOMAIN demo.disk

\* C24: for an external demo a missing markdown file gives the empty markdown
\* text and a missing source file the empty source text, and the call goes on
\* to its end; when the markdown text is empty the parser is not run and the
\* description and the style are those the props came with.
C24_MissingFilesAreEmpty ==
  /\ ppc = "done" \/ ENABLED ParserNext
  /\ (demo.opts.type = "external" /\ ppc \in {"start", "scan", "done"}) =>
       /\ MdMissing => md = <<>>
       /\ TsxMissing => props.jsx = [defined |-> TRUE, text |-> <<>>]
       /\ md = <<>> =>
            /\ ppc # "scan"
            /\ lines = <<>>
            /\ blocks = [n \in {} |-> <<>>]
            /\ props.description = demo.props.description
            /\ props.style = demo.props.style

\* C24 witness: a call for an external demo with neither file on disk has
\* ended, with the description and the style the props came with.
C24_Witness ==
  /\ ppc = "done"
  /\ demo.opts.type = "external"
  /\ MdMissing
  /\ TsxMissing
  /\ demo.props.description.defined
  /\ props.description = demo.props.description
  /\ props.style = demo.props.style


-----------------------------------------------------------------------------
(* addLinkStyle(html, cssFile, prepend) on its own *)

MaxTokens == 4     \* tokens of a generated html text

HtmlTokens == {HeadOpen, HeadClose, "<title>"}

InitLink ==
  /\ outputDir = NoFile
  /\ writeCount = [f \in {} |-> 0]
  /\ published = {}
  /\ ExportIdle
  /\ ParserOff
  /\ LocaleOff
  /\ RoutesOff
  /\ RaceOff
  /\ HeadOff
  /\ linkArgs \in [html    : SeqsUpTo(HtmlTokens, MaxTokens),
                   cssFile : {"style-antd.00000000.css", "style-css.ffffffff.css"},
                   prepend : BOOLEAN]
  /\ linkOut = <<>>
  /\ kpc = "call"

AddLink ==
  /\ kpc = "call"
  /\ linkOut' = addLinkStyle(linkArgs.html, linkArgs.cssFile, linkArgs.prepend)
  /\ kpc' = "done"
  /\ UNCHANGED linkArgs

LinkNext ==
  \/ AddLink /\ UNCHANGED <<exportVars, parserVars, localeVars, routeVars, raceVars,
                           headVars>>

SpecLink == InitLink /\ [][LinkNext]_vars

-----------------------------------------------------------------------------
(* Claims about addLinkStyle, checked under SpecLink *)

\* positions of a token in the html argument
PositionsOf(token) == {k \in 1..Len(linkArgs.html) : linkArgs.html[k] = token}

FirstOf(token) == CHOOSE k \in PositionsOf(token) : \A j \in PositionsOf(token) : k <= j

TheLink == "<link rel=\"stylesheet\" href=\"/" \o linkArgs.cssFile \o "\">"

\* C25: with prepend the link stands right after the first opening head
\* marker, without it right before the first closing head marker; nothing else
\* of the html changes, so one call adds one link, or none when the marker is
\* missing.
C25_OneLinkAtMarker ==
  kpc = "done" =>
    LET html   == linkArgs.html
        marker == IF linkArgs.prepend THEN "<head>" ELSE "</head>"
    IN  IF PositionsOf(marker) = {} THEN linkOut = html
        ELSE LET k  == FirstOf(marker)
                 at == IF linkArgs.prepend THEN k ELSE k - 1
             IN  /\ linkOut = SubSeq(html, 1, at) \o <<TheLink>>
                                \o SubSeq(html, at + 1, Len(html))
                 /\ Cardinality({n \in 1..Len(linkOut) : linkOut[n] = TheLink}) = 1

\* C25 witness: a prepend call on an html with two opening head markers and
\* a closing one has returned.
C25_Witness ==
  /\ kpc = "done"
  /\ linkArgs.prepend
  /\ Cardinality(PositionsOf("<head>")) = 2
  /\ PositionsOf("</head>") # {}
  /\ Len(linkOut) = Len(linkArgs.html) + 1


-----------------------------------------------------------------------------
(* The head script, run on every page load *)

MaxLoads == 4      \* page loads followed in one chain of redirects

ZhCNWord == <<"z", "h", "-", "C", "N">>

\* String.prototype.toLowerCase, on the language tags of this model
ToLowerCase(tag) ==
  CASE tag = "zh-CN" -> "zh-cn"
    [] tag = "en-US" -> "en-us"
    [] OTHER -> tag

\* queryString.indexOf('zh-CN') > -1, for a query string that is not empty
isZhCNConfig(queryString) == Contains(queryString, ZhCNWord)

\* (window.localStorage && localStorage.getItem('locale')) ||
\*   (navigator.language.toLowerCase() === 'zh-cn' ? 'zh-CN' : 'en-US')
LangOf(item, language) ==
  IF item # "null" /\ item # "" THEN item
  ELSE IF ToLowerCase(language) = "zh-cn" THEN "zh-CN" ELSE "en-US"

\* variant of IsHomePage that takes every page
IsAnyPage(pathname) == TRUE

\* pathname === '/' || pathname === '/index-cn'
IsHomePage(pathname) ==
  pathname = <<"/">> \/ pathname = <<"/">> \o IndexWord \o CnSuffix

\* the value of location.pathname when the script ends: the two conditional
\* assignments of lines 1865-1870 and 1883-1893, the later one standing
AssignedPathname(pathname, queryString, item, language, supported) ==
  LET first ==
        IF queryString # <<>> /\ isZhCNConfig(queryString) /\ ~isZhCN(pathname)
        THEN getLocalizedPathname(pathname, TRUE)
        ELSE pathname
      lang == LangOf(item, language)
  IN  IF supported /\ IsHomePage(pathname) /\ ((lang = "zh-CN") # isZhCN(pathname))
      THEN getLocalizedPathname(pathname, lang = "zh-CN")
      ELSE first

\* whether the script assigned location.pathname at all
Assigns(pathname, queryString, item, language, supported) ==
  \/ queryString # <<>> /\ isZhCNConfig(queryString) /\ ~isZhCN(pathname)
  \/ /\ supported
     /\ IsHomePage(pathname)
     /\ (LangOf(item, language) = "zh-CN") # isZhCN(pathname)

\* pages a visit may start on
HeadPaths ==
  { <<"/">>,
    <<"/">> \o IndexWord,
    <<"/">> \o IndexWord \o CnSuffix,
    <<"/", "a">>,
    <<"/", "a">> \o CnSuffix,
    <<"/", "a", "/">>,
    <<"/", "a">> \o CnSuffix \o <<"/">>,
    ComponentsButton }

HeadQueries ==
  { <<>>,
    <<"?", "l", "o", "c", "a", "l", "e", "=">> \o ZhCNWord,
    <<"?", "l", "o", "c", "a", "l", "e", "=", "e", "n", "-", "U", "S">>,
    <<"?", "q", "=", "1">> }

InitHead ==
  /\ outputDir = NoFile
  /\ writeCount = [f \in {} |-> 0]
  /\ published = {}
  /\ ExportIdle
  /\ ParserOff
  /\ LocaleOff
  /\ RoutesOff
  /\ RaceOff
  /\ LinkOff
  /\ page \in HeadPaths
  /\ query \in HeadQueries
  /\ stored \in {"null", "", "zh-CN", "en-US"}
  /\ browserLang \in {"zh-CN", "zh-cn", "en-US"}
  /\ storageOK \in BOOLEAN
  /\ htmlClass = ""
  /\ trail = <<page>>
  /\ hpc = "load"

\* the script runs and assigns location.pathname: the browser keeps the query
\* string and loads the new page, on which the script runs again
Redirect ==
  /\ hpc = "load"
  /\ Len(trail) < MaxLoads
  /\ Assigns(page, query, stored, browserLang, storageOK)
  /\ page' = AssignedPathname(page, query, stored, browserLang, storageOK)
  /\ trail' = Append(trail, page')
  /\ htmlClass' = ""
  /\ UNCHANGED <<query, stored, browserLang, storageOK, hpc>>

\* the script runs without assigning location.pathname: the page stays, with
\* the language class on its html element
Stay ==
  /\ hpc = "load"
  /\ ~Assigns(page, query, stored, browserLang, storageOK)
  /\ htmlClass' = IF isZhCN(page) THEN "zh-cn" ELSE "en-us"
  /\ hpc' = "stable"
  /\ UNCHANGED <<page, query, stored, browserLang, storageOK, trail>>

HeadNext ==
  \/ Redirect /\ UNCHANGED <<exportVars, parserVars, localeVars, routeVars, raceVars,
                            linkVars>>
  \/ Stay /\ UNCHANGED <<exportVars, parserVars, localeVars, routeVars, raceVars,
                        linkVars>>

SpecHead == InitHead /\ [][HeadNext]_vars

-----------------------------------------------------------------------------
(* Claims about the head script's redirects, checked under SpecHead *)

\* C26 (as claimed): a chain of redirects comes to a page on which the script
\* redirects no further.  The script's decision depends on the pathname only,
\* the query string and the preference staying as they are, so a chain that
\* comes back to a pathname it has loaded goes round for ever: no pathname is
\* loaded twice.
C26_NoPageLoadedTwice ==
  \A a, b \in 1..Len(trail) : a < b => trail[a] # trail[b]

\* the query rule: the query string holds "zh-CN" and the page is not a
\* Chinese page
QueryRule ==
  /\ Contains(query, <<"z", "h", "-", "C", "N">>)
  /\ ~IsLocaleB(page)

OnHome == page \in { <<"/">>, <<"/", "i", "n", "d", "e", "x", "-", "c", "n">> }

\* the preferred language is Chinese: the stored one when there is one, else
\* the browser's
PrefersZh ==
  IF stored \notin {"null", ""} THEN stored = "zh-CN"
  ELSE browserLang \in {"zh-CN", "zh-cn"}

\* a page load ends in a redirect
Redirected == Len(trail') = Len(trail) + 1

\* a page load ends, either way
ScriptRan == (hpc = "load" /\ hpc' = "stable") \/ Redirected

-----------------------------------------------------------------------------
(* Claims about switching the locale and back, checked under SpecLocale *)

\* C29 (as claimed): for a path that starts with "/", does not end with the
\* locale suffix and is none of "/", "/index", "/index-cn", resolving to the
\* suffixed locale and back gives the path again; and "/" comes back as "/".
C29_ThereAndBack ==
  (lpc = "done" /\ zhCN) =>
    /\ (/\ path # <<>>
        /\ path[1] = "/"
        /\ ~IsLocaleB(path)
        /\ path \notin { <<"/">>, <<"/", "i", "n", "d", "e", "x">>,
                         <<"/", "i", "n", "d", "e", "x", "-", "c", "n">> })
       => switched = path
    /\ path = <<"/">> => switched = <<"/">>


-----------------------------------------------------------------------------
(* Claims about the pages an export returns, checked under Spec *)

\* the tokens of the pages as they were handed in
InputTokens ==
  UNION {{files[k].content[n] : n \in 1..Len(files[k].content)} :
           k \in 1..Len(files)}

IsInputToken(token) == token \in InputTokens

\* C28: when the export has returned, every token of a returned page that
\* was not in the pages handed in is a stylesheet link whose href is the
\* public path followed by the name of a file of the output directory.
C28_LinkedFilesExist ==
  pc = "done" =>
    \A k \in 1..Len(out) : \A n \in 1..Len(out[k].content) :
      \/ out[k].content[n] \in InputTokens
      \/ \E f \in DOMAIN outputDir :
           out[k].content[n] = "<link rel=\"stylesheet\" href=\"/" \o f \o "\">"

\* C28 witness: the export has returned a page with a link to a file that
\* the last publish found in the output directory and did not write.
C28_Witness ==
  /\ pc = "done"
  /\ lastCall.called
  /\ ~lastCall.wrote
  /\ cssFile \in DOMAIN outputDir
  /\ \E k \in 1..Len(out) :
       Includes(out[k].content,
                "<link rel=\"stylesheet\" href=\"/" \o cssFile \o "\">")

\* C30: a page keeps its path; its content without the tokens that were not
\* handed in is the content handed in; a page without fragment keeps its
\* content as it is, and working on it writes no file.
C30_OnlyLinksAdded ==
  /\ [](pc \in {"map", "forEach", "done"} =>
          \A k \in 1..Len(out) :
            /\ out[k].path = Rendered[k].path
            /\ SelectSeq(out[k].content, IsInputToken) = Rendered[k].content
            /\ Emitting(Rendered[k].content) = {} =>
                 out[k].content = Rendered[k].content)
  /\ [][(pc = "forEach" /\ Emitting(Rendered[fileIdx].content) = {}) =>
          /\ outputDir' = outputDir
          /\ writeCount' = writeCount
          /\ out' = out]_vars

\* C30 witness: an export has returned two pages, one with a link added and
\* one, without fragment, as it was handed in.
C30_Witness ==
  /\ pc = "done"
  /\ \E j, k \in 1..Len(out) :
       /\ Emitting(Rendered[j].content) = {}
       /\ out[j].content = Rendered[j].content
       /\ Emitting(Rendered[k].content) # {}
       /\ Len(out[k].content) > Len(Rendered[k].content)


====
